---------------------------- MODULE Spec2Model ----------------------------
(***************************************************************************)
(* Model of the pdf-apps scripts: the alternating-page merger               *)
(* (PDF_Merger.py), the positional page splitters (PDF_Splitter*.py,        *)
(* Pdf_splitter*.py) and the whitespace autocrop of the processor scripts   *)
(* (pdf_processor_app.py, Pdf_cropper.py).                                  *)
(*                                                                          *)
(* Each script is a Streamlit page: every widget interaction re-runs        *)
(* main() from the top.  One action of the model is one such interaction    *)
(* together with the whole re-run it triggers.  The scripts share nothing,  *)
(* so each has its own specification over the common variable tuple.        *)
(***************************************************************************)
EXTENDS Integers, Sequences, FiniteSets, TLC

VARIABLES
    \* ---- PDF_Merger.py ----
    pdf1,          \* uploader "pdf1": NoFile or an uploaded file
    pdf2,          \* uploader "pdf2"
    mergeRet,      \* what merge_pdfs_alternating returned in the last run
    mergeUI,       \* what main() rendered below the Merge button in the last run
    \* ---- splitter scripts ----
    variant,       \* which splitter script is running
    doc,           \* the uploaded document: sequence of page widths (<<>>: no upload)
    split_data,    \* st.session_state.split_data, a dict in insertion order
    current_page,  \* st.session_state.current_page
    slider_defaults, \* st.session_state.slider_defaults
    navigation,    \* st.session_state.navigation of Pdf_splitter(2).py
    moves,         \* number of split edits made so far (bounded)
    splitOut,      \* outcome of the last "Generate Split PDF"
    \* ---- autocrop ----
    image,         \* the page image handed to the crop function
    threshold,     \* white_threshold
    cropOut,       \* outcome of the last crop call
    \* ---- logo setup and page processing (processor scripts) ----
    procScript,    \* which processor script is running
    logo_widgets,  \* the toggles and number inputs logo{i}_toggle, logo{i}_x1 ...
    logo_states,   \* st.session_state logo{i}_enabled / logo{i}_coords
    removal_method,   \* sidebar "Logo Removal Method"
    cropping_method,  \* sidebar "Cropping Method"
    proc_total_pages, \* total_pages = len(doc) of the uploaded PDF
    proc_page_num, \* loop variable page_num of process_pdf_with_logos
    stage,         \* where process_pdf_with_logos stands in the loop body
    pil_image,     \* its local pil_image
    maskLog,       \* the values pil_image took in the logo loop of this page
    processed_images, \* its local processed_images
    logoArgs,      \* arguments of a direct call of remove_logo_precise
    logoRet,       \* what that call returned
    \* ---- pdf_merger_app.py (merge, invert, filter) ----
    uploaded_files, \* what the multi-file uploader holds in this run
    pdf_files,     \* st.session_state.pdf_files
    file_order,    \* st.session_state.file_order
    merged_pdf,    \* st.session_state.merged_pdf
    inverted_pdf,  \* st.session_state.inverted_pdf
    filtered_pdf,  \* st.session_state.filtered_pdf
    \* ---- session of the processor scripts ----
    uploaded_pdf,  \* what the uploader "Upload PDF" holds in this run
    all_page_images, \* st.session_state.all_page_images
    session_processed_images, \* st.session_state.processed_images
    processing_done, \* st.session_state.processing_done
    processUI      \* what the last "Process" press showed and did

mergeVars == <<pdf1, pdf2, mergeRet, mergeUI>>
splitVars == <<variant, doc, split_data, current_page, slider_defaults,
               navigation, moves, splitOut>>
cropVars  == <<image, threshold, cropOut>>
setupVars == <<logo_widgets, logo_states>>
procVars  == <<removal_method, cropping_method, proc_total_pages, proc_page_num,
               stage,
               pil_image, maskLog, processed_images>>
callVars  == <<logoArgs, logoRet>>
logoVars  == <<procScript, setupVars, procVars, callVars>>
pipeVars  == <<uploaded_files, pdf_files, file_order, merged_pdf, inverted_pdf,
               filtered_pdf>>
sessVars  == <<uploaded_pdf, all_page_images, session_processed_images,
               processing_done, processUI>>
appVars   == <<pipeVars, sessVars>>
vars == <<mergeVars, splitVars, cropVars, logoVars, appVars>>

\* Python's None, and a tagged value that is not None.
NoneVal == [none |-> TRUE]
Some(v) == [none |-> FALSE, val |-> v]

Max(a, b) == IF a >= b THEN a ELSE b
Min(a, b) == IF a <= b THEN a ELSE b

(***************************************************************************)
(*                        PDF_Merger.py                                     *)
(***************************************************************************)

\* Largest page count of an uploaded document.
MaxPages == 5

\* An uploaded PDF: n pages when it parses.  fault says where reading it
\* raises: "parse" (PdfReader raises), "page" (reading page number badPage
\* raises while it is added), "none".  A raised exception carries a message
\* msg, which str(e) returns; Python allows the empty message.
NoFile == [present |-> FALSE]
Files ==
    { [present |-> TRUE, n |-> n, fault |-> "none", badPage |-> 0, msg |-> "err"] :
        n \in 0..MaxPages }
    \cup
    { [present |-> TRUE, n |-> n, fault |-> f, badPage |-> b, msg |-> m] :
        n \in {MaxPages}, f \in {"parse", "page"}, b \in {0, MaxPages - 1},
        m \in {"", "err"} }

\* Page i of the document in slot s (1 or 2).
Page(s, i) == <<s, i>>

\* Mutant of MergeLoop: the page of the second document is added first.
RECURSIVE MergeLoopSecondFirst(_, _, _, _, _)
MergeLoopSecondFirst(f1, f2, i, max_pages, w) ==
    IF i >= max_pages THEN [raised |-> FALSE, writer |-> w]
    ELSE LET w1 == IF i < f2.n THEN Append(w, <<2, i>>) ELSE w
         IN  MergeLoopSecondFirst(f1, f2, i + 1, max_pages,
                                  IF i < f1.n THEN Append(w1, <<1, i>>) ELSE w1)

\* Mutant of MergeLoop: a round in which the first document has no page
\* left ends the loop early.
RECURSIVE MergeLoopStopsShort(_, _, _, _, _)
MergeLoopStopsShort(f1, f2, i, max_pages, w) ==
    IF i >= max_pages \/ i >= f1.n THEN [raised |-> FALSE, writer |-> w]
    ELSE MergeLoopStopsShort(f1, f2, i + 1, max_pages,
                             IF i < f2.n THEN w \o <<(<<1, i>>), (<<2, i>>)>>
                             ELSE Append(w, <<1, i>>))

\* Lines 53-60, rounds i, i+1, ... max_pages-1, starting from writer w.
\* Returns the writer, or the exception raised on the way.
RECURSIVE MergeLoop(_, _, _, _, _)
MergeLoop(f1, f2, i, max_pages, w) ==
    IF i >= max_pages THEN [raised |-> FALSE, writer |-> w]
    ELSE IF i < f1.n /\ f1.fault = "page" /\ f1.badPage = i
         THEN [raised |-> TRUE, msg |-> f1.msg, writer |-> w]
    ELSE LET w1 == IF i < f1.n THEN Append(w, Page(1, i)) ELSE w
         IN  IF i < f2.n /\ f2.fault = "page" /\ f2.badPage = i
             THEN [raised |-> TRUE, msg |-> f2.msg, writer |-> w1]
             ELSE MergeLoop(f1, f2, i + 1, max_pages,
                            IF i < f2.n THEN Append(w1, Page(2, i)) ELSE w1)

\* merge_pdfs_alternating: (output_buffer, None) or (None, str(e)).
\* writer is the local pdf_writer when the function returned.
merge_pdfs_alternating(f1, f2) ==
    IF f1.fault = "parse"
    THEN [buffer |-> NoneVal, error |-> Some(f1.msg), writer |-> <<>>]
    ELSE IF f2.fault = "parse"
    THEN [buffer |-> NoneVal, error |-> Some(f2.msg), writer |-> <<>>]
    ELSE LET r == MergeLoop(f1, f2, 0, Max(f1.n, f2.n), <<>>)
         IN  IF r.raised
             THEN [buffer |-> NoneVal, error |-> Some(r.msg), writer |-> r.writer]
             ELSE [buffer |-> Some(r.writer), error |-> NoneVal, writer |-> r.writer]

\* Python truthiness of the returned error: None and "" are both falsy.
ErrorTruthy(e) == ~e.none /\ e.val # ""

\* What main() renders after the Merge button was pressed (lines 108-143).
\* In the else branch the two files are parsed again for the metrics; a
\* parse failure there, or a download button given None, is an uncaught
\* exception: the run stops and the framework shows the traceback.
NoUI == [shown |-> "nothing"]
MergeRender(f1, f2, ret) ==
    IF ErrorTruthy(ret.error)
    THEN [shown |-> "error", text |-> ret.error.val]
    ELSE IF f1.fault = "parse" \/ f2.fault = "parse"
    THEN [shown |-> "success_then_uncaught"]
    ELSE IF ret.buffer.none
    THEN [shown |-> "success_then_uncaught", merged_pages |-> f1.n + f2.n]
    ELSE [shown |-> "success_download", merged_pages |-> f1.n + f2.n,
          data |-> ret.buffer.val]

MergeIdle == /\ pdf1 = NoFile /\ pdf2 = NoFile
             /\ mergeRet = NoneVal /\ mergeUI = NoUI

\* The user puts a file into (or removes it from) an uploader; the re-run
\* renders no merge result (the button is not pressed in that run).
UploadPdf1 == /\ \E f \in Files \cup {NoFile} : pdf1' = f
              /\ mergeRet' = NoneVal /\ mergeUI' = NoUI
              /\ UNCHANGED <<pdf2, splitVars, cropVars, logoVars, appVars>>

UploadPdf2 == /\ \E f \in Files \cup {NoFile} : pdf2' = f
              /\ mergeRet' = NoneVal /\ mergeUI' = NoUI
              /\ UNCHANGED <<pdf1, splitVars, cropVars, logoVars, appVars>>

\* "Merge PDFs" pressed: lines 106-143.
ClickMerge == /\ pdf1.present /\ pdf2.present
              /\ LET ret == merge_pdfs_alternating(pdf1, pdf2)
                 IN  /\ mergeRet' = Some(ret)
                     /\ mergeUI' = MergeRender(pdf1, pdf2, ret)
              /\ UNCHANGED <<pdf1, pdf2, splitVars, cropVars, logoVars, appVars>>


(***************************************************************************)
(*                        Splitter scripts                                  *)
(***************************************************************************)

\* The splitter scripts modelled:
\*   "S4"  PDF_Splitter(4).py   ten percentage sliders per page (pypdf)
\*   "s3"  Pdf_splitter(3).py   click offsets through a number input (pypdf)
\*   "s1"  Pdf_splitter(1).py   click offsets posted by the page image (pypdf)
\*   "S0"  PDF_Splitter.py      click offsets, PyPDF2
\*   "s2"  Pdf_splitter(2).py   click offsets and a navigation form (pypdf)
\*   "sH"  Pdf_splitter.py      ten percentage sliders per page, horizontal
\*                              bands: the page extent is its height
Variants == {"S4", "s3", "s1", "S0", "s2", "sH"}

\* The scripts with ten percentage sliders per page.
IsSliderScript(v) == v \in {"S4", "sH"}

\* Largest page count of an uploaded document, and the number of split
\* edits (slider moves, clicks) of one session.
MaxDocPages == 2
MaxMoves == 2
\* The sliders the user touches are the first MaxTouched of the ten.
MaxTouched == 2

NumSliders == 10
SliderMin == 0
SliderMax == 100

\* The document with n pages: page widths (mediabox.width) in points.
PageWidth(p) == IF p % 2 = 0 THEN 200 ELSE 100
Doc(n) == [i \in 1..n |-> PageWidth(i - 1)]
NoDoc == <<>>

\* Slider positions the user drags to, and click positions on a page of
\* width w (the number input ranges over 0..w).
SliderVals == {SliderMin, 25, 75, SliderMax}
ClickXs(w) == {0, w \div 4, (3 * w) \div 4, w}

Zeros == [i \in 1..NumSliders |-> 0]

\* ---- a Python dict kept in insertion order: a sequence of (k, v) ----
DictKeys(d) == {d[i].k : i \in 1..Len(d)}
DictIdx(d, k) == CHOOSE i \in 1..Len(d) : d[i].k = k
DictGet(d, k, default) == IF k \in DictKeys(d) THEN d[DictIdx(d, k)].v ELSE default
\* Mutant of DictSet: the assignment reaches the entry of every key.
DictSetEveryKey(d, k, v) == IF k \in DictKeys(d)
                            THEN [i \in 1..Len(d) |-> [k |-> d[i].k, v |-> v]]
                            ELSE Append([i \in 1..Len(d) |-> [k |-> d[i].k, v |-> v]],
                                        [k |-> k, v |-> v])
DictSet(d, k, v) == IF k \in DictKeys(d)
                    THEN [d EXCEPT ![DictIdx(d, k)].v = v]
                    ELSE Append(d, [k |-> k, v |-> v])

\* ---- Python list helpers ----
SeqToSet(s) == {s[i] : i \in 1..Len(s)}
sorted(s) == SortSeq(s, LAMBDA a, b : a < b)
RECURSIVE SetToSortedSeq(_)
SetToSortedSeq(S) ==
    IF S = {} THEN <<>>
    ELSE LET m == CHOOSE x \in S : \A y \in S : x <= y
         IN  <<m>> \o SetToSortedSeq(S \ {m})

\* ---- output pages ----
\* add_page(original_page)
Orig(p) == [kind |-> "orig", page |-> p]
\* a blank page of width right-left onto which page p is merged shifted by -left
Seg(p, left, right) == [kind |-> "seg", page |-> p, left |-> left, right |-> right]

\* The inner loop "for i in range(len(all_splits) - 1)".
Segments(p, all_splits) ==
    [i \in 1..(Len(all_splits) - 1) |-> Seg(p, all_splits[i], all_splits[i + 1])]

\* Mutant of SplitPageAbs: the offsets are used in the order they were entered.
SplitPageAbsUnsorted(d, sd, page_num) ==
    LET splits == DictGet(sd, page_num, <<>>)
    IN  IF splits # <<>>
        THEN Segments(page_num, <<0>> \o splits \o <<d[page_num + 1]>>)
        ELSE <<Orig(page_num)>>

\* Pdf_splitter(3).py / Pdf_splitter(1).py create_split_pdf, page page_num.
SplitPageAbs(d, sd, page_num) ==
    LET splits == DictGet(sd, page_num, <<>>)
    IN  IF splits # <<>>
        THEN Segments(page_num, <<0>> \o sorted(splits) \o <<d[page_num + 1]>>)
        ELSE <<Orig(page_num)>>

\* Mutant of IsValidSplit: a slider left at 0 counts as a split.
IsValidSplitFromZero(s) == 0 <= s /\ s < 100

\* Mutant of IsValidSplit: a slider at 100 counts as a split.
IsValidSplitUpTo100(s) == 0 < s /\ s <= 100

\* PDF_Splitter(4).py line 19 (and 292): a slider value that makes a split.
IsValidSplit(s) == 0 < s /\ s < 100

\* PDF_Splitter(4).py create_split_pdf, page page_num.  Pdf_splitter.py
\* runs the same statements on the page height with ctm (1, 0, 0, 1, 0,
\* -top): there Seg(p, lo, hi) is the band between the heights lo and hi
\* of PDF user space, which are measured upwards from the lower page edge.
SplitPagePct(d, sd, page_num) ==
    LET splits == DictGet(sd, page_num, <<>>)
        page_width == d[page_num + 1]
        valid_splits == sorted(SelectSeq(splits, IsValidSplit))
        split_coords == [i \in 1..Len(valid_splits) |->
                            (valid_splits[i] * page_width) \div 100]
    IN  IF splits # <<>> /\ valid_splits # <<>>
        THEN Segments(page_num, <<0>> \o split_coords \o <<page_width>>)
        ELSE <<Orig(page_num)>>

\* The page loop body of the script v that walks range(len(pages)).
SplitPage(v, d, sd, page_num) ==
    IF IsSliderScript(v) THEN SplitPagePct(d, sd, page_num)
    ELSE SplitPageAbs(d, sd, page_num)

\* The outer loop "for page_num in range(len(original_pdf.pages))".
RECURSIVE PagesFrom(_, _, _, _)
PagesFrom(v, d, sd, page_num) ==
    IF page_num >= Len(d) THEN <<>>
    ELSE SplitPage(v, d, sd, page_num) \o PagesFrom(v, d, sd, page_num + 1)

\* PDF_Splitter.py create_split_pdf: "for page_num, splits in
\* enumerate(split_data)" walks the KEYS of the dict: page_num is the
\* position of the key, splits the key itself (a page index).  A key that
\* is not 0 is truthy and sorted(splits) of an int raises TypeError; a key
\* equal to 0 is falsy and page number <position> is added unsplit.
RECURSIVE EnumFrom(_, _, _)
EnumFrom(d, sd, i) ==
    IF i > Len(sd) THEN [raised |-> FALSE, pages |-> <<>>]
    ELSE IF sd[i].k # 0 THEN [raised |-> TRUE, pages |-> <<>>]
    ELSE IF i > Len(d) THEN [raised |-> TRUE, pages |-> <<>>]
    ELSE LET rest == EnumFrom(d, sd, i + 1)
         IN  [raised |-> rest.raised, pages |-> <<Orig(i - 1)>> \o rest.pages]

\* create_split_pdf of script v: the output pages, or an exception.
create_split_pdf(v, d, sd) ==
    IF v = "S0" THEN EnumFrom(d, sd, 1)
    ELSE [raised |-> FALSE, pages |-> PagesFrom(v, d, sd, 0)]

\* PDF_Splitter(4).py lines 286-294: processed_split_data, the splits of
\* every stored page that are strictly between 0 and 100.
processed_split_data(sd) ==
    [i \in 1..Len(sd) |-> [k |-> sd[i].k, v |-> SelectSeq(sd[i].v, IsValidSplit)]]

\* "Generate Split PDF": the argument main() passes to create_split_pdf.
GenerateArg(v, sd) == IF IsSliderScript(v) THEN processed_split_data(sd) ELSE sd

\* ---- one run of main() ----
EmptyEntry(v) == IF IsSliderScript(v) THEN Zeros ELSE <<>>

\* "Ensure current page is within bounds" and "Get current page data":
\* the current page gets an entry in split_data when it has none.
EnsureEntry(v, d, sd, cp) ==
    LET total_pages == Len(d)
        cp1 == IF cp >= total_pages THEN total_pages - 1 ELSE cp
    IN  IF total_pages = 0 THEN [sd |-> sd, cp |-> cp]
        ELSE [sd |-> IF cp1 \in DictKeys(sd) THEN sd
                     ELSE DictSet(sd, cp1, EmptyEntry(v)),
              cp |-> cp1]

\* PDF_Splitter(4).py lines 210-242: the ten sliders return new_splits;
\* when one differs from slider_defaults the page's splits and the
\* defaults are overwritten.
SliderUpdate(sd, cp, defs, new_splits) ==
    IF \E i \in 1..NumSliders : new_splits[i] # defs[i]
    THEN [sd |-> DictSet(sd, cp, new_splits), defs |-> new_splits]
    ELSE [sd |-> sd, defs |-> defs]

\* Python's list.index(x): the position (from 1 here) of the first x.
IndexOf(l, x) == CHOOSE i \in 1..Len(l) : l[i] = x /\ \A j \in 1..(i - 1) : l[j] # x

\* PDF_Splitter(4).py line 245, computed after the update of lines 235-242:
\* the list whose length is shown as "Active splits on this page".
active_splits(new_splits, defs) ==
    SelectSeq(new_splits,
              LAMBDA sv : 0 < sv /\ sv < 100 /\ sv # defs[IndexOf(new_splits, sv)])

\* The re-run of main() after session state was set to (sd, cp, defs).
\* A slider that is drawn again takes its value from the stored splits
\* (value=current_splits[i]).
Rerun(v, d, sd, cp, defs) ==
    LET e == EnsureEntry(v, d, sd, cp)
    IN  IF Len(d) = 0 \/ ~IsSliderScript(v)
        THEN [sd |-> e.sd, cp |-> e.cp, defs |-> defs]
        ELSE LET u == SliderUpdate(e.sd, e.cp, defs, DictGet(e.sd, e.cp, Zeros))
             IN  [sd |-> u.sd, cp |-> e.cp, defs |-> u.defs]

NoOut == [status |-> "none"]

SetSession(r) == /\ split_data' = r.sd
                 /\ current_page' = r.cp
                 /\ slider_defaults' = r.defs

SplitIdle == /\ doc = NoDoc /\ split_data = <<>> /\ current_page = 0
             /\ slider_defaults = Zeros /\ navigation = "none"
             /\ moves = 0 /\ splitOut = NoOut

\* Mutant of NewFileState: the state of the previous file is kept.
NewFileStateKept(sd, cp, defs) == [sd |-> sd, cp |-> cp, defs |-> defs]

\* "Reset state for new file": the session state when the uploaded file
\* differs from the recorded one.
NewFileState(sd, cp, defs) == [sd |-> <<>>, cp |-> 0, defs |-> Zeros]

\* A new file is uploaded: session state is reset, then main() runs on.
Upload == \E n \in 0..MaxDocPages :
    /\ doc' = Doc(n)
    /\ LET r == NewFileState(split_data, current_page, slider_defaults)
       IN  SetSession(Rerun(variant, Doc(n), r.sd, r.cp, r.defs))
    /\ moves' = 0
    /\ splitOut' = NoOut
    /\ UNCHANGED <<variant, navigation, mergeVars, cropVars, logoVars, appVars>>

\* Mutant of NavHandling: a 'next' request is taken like a 'prev' request.
NavHandlingNextAsPrev(nav, cp) ==
    IF nav \in {"prev", "next"} /\ cp > 0 THEN [cp |-> cp - 1, nav |-> "none"]
    ELSE [cp |-> cp, nav |-> nav]

\* Pdf_splitter(2).py lines 93-101, "Handle navigation": what the top of
\* main() makes of st.session_state.navigation.  A 'prev' request on page 0
\* is left standing; it cannot fire later, because every change of
\* current_page goes through a request that overwrites it.
NavHandling(nav, cp) ==
    IF nav = "prev" /\ cp > 0 THEN [cp |-> cp - 1, nav |-> "none"]
    ELSE IF nav = "next" THEN [cp |-> cp + 1, nav |-> "none"]
    ELSE [cp |-> cp, nav |-> nav]

\* "Previous Page" / "Next Page".  In Pdf_splitter(2).py the button stores
\* the request in st.session_state.navigation and the next run takes it.
PrevPage ==
    /\ Len(doc) > 0
    /\ SetSession(Rerun(variant, doc, split_data,
                        IF current_page > 0 THEN current_page - 1 ELSE current_page,
                        slider_defaults))
    /\ navigation' = IF variant = "s2" /\ current_page > 0 THEN "none" ELSE navigation
    /\ splitOut' = NoOut
    /\ UNCHANGED <<variant, doc, moves, mergeVars, cropVars, logoVars, appVars>>

NextPage ==
    /\ Len(doc) > 0
    /\ SetSession(Rerun(variant, doc, split_data,
                        IF current_page < Len(doc) - 1 THEN current_page + 1
                        ELSE current_page,
                        slider_defaults))
    /\ navigation' = IF variant = "s2" /\ current_page < Len(doc) - 1 THEN "none"
                     ELSE navigation
    /\ splitOut' = NoOut
    /\ UNCHANGED <<variant, doc, moves, mergeVars, cropVars, logoVars, appVars>>

\* Pdf_splitter(2).py lines 224-230: the navigation form is submitted with
\* nav_action (the arrow keys fill it in).  "stay" is not stored; "prev" and
\* "next" are stored and taken by the next run, which then runs main()
\* again through "Ensure current page is within bounds".
NavForm(nav_action) ==
    /\ variant = "s2" /\ Len(doc) > 0
    /\ LET h == NavHandling(IF nav_action = "stay" THEN navigation ELSE nav_action,
                            current_page)
       IN  /\ SetSession(Rerun(variant, doc, split_data, h.cp, slider_defaults))
           /\ navigation' = h.nav
    /\ splitOut' = NoOut
    /\ UNCHANGED <<variant, doc, moves, mergeVars, cropVars, logoVars, appVars>>

\* PDF_Splitter(4).py: the user drags slider i of the current page to val.
MoveSlider == \E i \in 1..MaxTouched, val \in SliderVals :
    /\ IsSliderScript(variant) /\ Len(doc) > 0 /\ moves < MaxMoves
    /\ LET cur == DictGet(split_data, current_page, Zeros)
           new_splits == [cur EXCEPT ![i] = val]
           u == SliderUpdate(split_data, current_page, slider_defaults, new_splits)
       IN  /\ cur[i] # val
           /\ SetSession([sd |-> u.sd, cp |-> current_page, defs |-> u.defs])
    /\ moves' = moves + 1
    /\ splitOut' = NoOut
    /\ UNCHANGED <<variant, navigation, doc, mergeVars, cropVars, logoVars, appVars>>

\* The click variants: a split at x is submitted for the current page.
\*   Pdf_splitter(3).py 226-229: add_split and click_x > 0, not yet stored
\*   Pdf_splitter(1).py 257-261: 0 <= new_split <= page_width, not yet stored
\*   Pdf_splitter(2).py 216-222, 103-116: click_x > 0 in the form, then
\*                      0 <= new_split <= page_width, not yet stored
\*   PDF_Splitter.py    227-230: appended, then list(set(...))
AddSplitTo(v, w, splits, x) ==
    CASE v = "s3" -> IF x > 0 /\ x \notin SeqToSet(splits)
                     THEN Append(splits, x) ELSE splits
      [] v = "s1" -> IF x >= 0 /\ x <= w /\ x \notin SeqToSet(splits)
                     THEN Append(splits, x) ELSE splits
      [] v = "s2" -> IF x > 0 /\ x <= w /\ x \notin SeqToSet(splits)
                     THEN Append(splits, x) ELSE splits
      [] OTHER    -> SetToSortedSeq(SeqToSet(splits) \cup {x})

AddSplit == \E x \in ClickXs(PageWidth(current_page)) :
    /\ ~IsSliderScript(variant) /\ Len(doc) > 0 /\ moves < MaxMoves
    /\ LET cur == DictGet(split_data, current_page, <<>>)
           new == AddSplitTo(variant, doc[current_page + 1], cur, x)
       IN  SetSession(Rerun(variant, doc, DictSet(split_data, current_page, new),
                            current_page, slider_defaults))
    /\ moves' = moves + 1
    /\ splitOut' = NoOut
    /\ UNCHANGED <<variant, navigation, doc, mergeVars, cropVars, logoVars, appVars>>

\* "Clear Splits on This Page" / "Reset This Page's Splits".
ClearPage ==
    /\ Len(doc) > 0
    /\ SetSession(Rerun(variant, doc,
                        DictSet(split_data, current_page, EmptyEntry(variant)),
                        current_page, Zeros))
    /\ splitOut' = NoOut
    /\ UNCHANGED <<variant, navigation, doc, moves, mergeVars, cropVars, logoVars, appVars>>

\* "Clear All Splits".
ClearAll ==
    /\ Len(doc) > 0
    /\ SetSession(Rerun(variant, doc, <<>>, current_page, Zeros))
    /\ splitOut' = NoOut
    /\ UNCHANGED <<variant, navigation, doc, moves, mergeVars, cropVars, logoVars, appVars>>

\* "Generate Split PDF": the try block around create_split_pdf.
GenerateOutcome(v, d, sd) ==
    LET r == create_split_pdf(v, d, GenerateArg(v, sd))
    IN  IF r.raised THEN [status |-> "error"]
        ELSE [status |-> "ok", pages |-> r.pages]

Generate ==
    /\ Len(doc) > 0
    /\ splitOut' = GenerateOutcome(variant, doc, split_data)
    /\ UNCHANGED <<variant, navigation, doc, split_data, current_page, slider_defaults, moves,
                   mergeVars, cropVars, logoVars, appVars>>

NavActions == {"stay", "prev", "next"}
SplitNext == \/ Upload \/ PrevPage \/ NextPage \/ MoveSlider \/ AddSplit
             \/ ClearPage \/ ClearAll \/ Generate
             \/ \E nav_action \in NavActions : NavForm(nav_action)

(***************************************************************************)
(*              Whitespace autocrop (processor scripts)                     *)
(***************************************************************************)

\* Image sizes: one long side and one short side, or short both ways.
MaxLong == 12
MaxShort == 2

\* st.sidebar.slider("White Threshold", 200, 254, 245)
ThresholdMin == 200
ThresholdMax == 254
ThresholdDefault == 245
Thresholds == {ThresholdMin, ThresholdDefault, ThresholdMax}

margin == 5

\* An RGB image: width w, height h, px[<<y, x>>] = <<r, g, b>>.
Pos(w, h) == (0..(h - 1)) \X (0..(w - 1))
Channels == 1..3
White255 == <<255, 255, 255>>

\* Pixel values put on the white page, for threshold t: every channel
\* exactly at the threshold, one channel just below it, black.
InkVals(t) == {<<t, t, t>>, <<t - 1, 255, 255>>, <<0, 0, 0>>}

Sizes == {<<MaxLong, MaxShort>>, <<MaxShort, MaxLong>>, <<MaxShort, MaxShort>>}

\* The w x h page that is 255 everywhere except value v at the positions ink.
MkImage(w, h, ink, v) ==
    [w |-> w, h |-> h,
     px |-> [p \in Pos(w, h) |-> IF p \in ink THEN v ELSE White255]]

\* The w x h white page with value v1 at position a and v2 at position b.
MkImage2(w, h, a, v1, b, v2) ==
    [w |-> w, h |-> h,
     px |-> [p \in Pos(w, h) |-> IF p = a THEN v1 ELSE IF p = b THEN v2 ELSE White255]]

\* Images with at most two inked pixels: of one colour, or one pixel with
\* a single channel below the threshold and one black pixel.
Images(t) ==
    { MkImage(sz[1], sz[2], {}, White255) : sz \in Sizes }
    \cup
    UNION { { MkImage(sz[1], sz[2], ink, v) :
                ink \in {{p, q} : p, q \in Pos(sz[1], sz[2])}, v \in InkVals(t) }
            : sz \in Sizes }
    \cup
    UNION { { MkImage2(sz[1], sz[2], ab[1], <<t - 1, 255, 255>>, ab[2], <<0, 0, 0>>) :
                ab \in {x \in Pos(sz[1], sz[2]) \X Pos(sz[1], sz[2]) : x[1] # x[2]} }
            : sz \in Sizes }

SetMin(S) == CHOOSE x \in S : \A y \in S : x <= y
SetMax(S) == CHOOSE x \in S : \A y \in S : x >= y

\* PIL image.crop((x_min, y_min, x_max, y_max)).
crop(img, box) ==
    LET x0 == box[1]  y0 == box[2]
        nw == box[3] - box[1]
        nh == box[4] - box[2]
    IN  [w |-> nw, h |-> nh,
         px |-> [p \in Pos(nw, nh) |-> img.px[<<p[1] + y0, p[2] + x0>>]]]

\* "return image": the argument itself comes back.
Unchanged(img) == [cropped |-> FALSE, image |-> img]
Cropped(img, raw, box) ==
    [cropped |-> TRUE, image |-> crop(img, box), bbox |-> raw, box |-> box]

\* ---- pdf_processor_app.py ----

\* np.any(img_array < white_threshold, axis=(1, 2)): rows holding a
\* channel below the threshold.
non_white_rows(img, t) ==
    {y \in 0..(img.h - 1) :
        \E x \in 0..(img.w - 1), c \in Channels : img.px[<<y, x>>][c] < t}

\* np.any(img_array < white_threshold, axis=(0, 1)) on the (h, w, 3) array
\* of an RGB page reduces over rows and columns and leaves one flag per
\* CHANNEL: np.where gives the indices (0..2) of the channels in which some
\* pixel of the image is below the threshold.
non_white_cols(img, t) ==
    {c - 1 : c \in {k \in Channels : \E p \in Pos(img.w, img.h) : img.px[p][k] < t}}

\* Mutant of non_white_coords: a channel equal to the threshold is not white.
non_white_coords_strict(img, t) ==
    {p \in Pos(img.w, img.h) : ~(\A c \in Channels : img.px[p][c] > t)}

\* white_mask = np.all(img_array >= white_threshold, axis=2) and
\* np.where(~white_mask): the <<y, x>> of the pixels that are not white.
non_white_coords(img, t) ==
    {p \in Pos(img.w, img.h) : ~(\A c \in Channels : img.px[p][c] >= t)}

\* crop_vertical_only
crop_vertical_only(img, t) ==
    LET rows == non_white_rows(img, t)
    IN  IF rows = {} THEN Unchanged(img)
        ELSE LET y_min == SetMin(rows)
                 y_max == SetMax(rows)
             IN  Cropped(img, <<0, y_min, img.w - 1, y_max>>,
                         <<0, Max(0, y_min - margin),
                           img.w, Min(img.h, y_max + 1 + margin)>>)

\* crop_horizontal_only
crop_horizontal_only(img, t) ==
    LET cols == non_white_cols(img, t)
    IN  IF cols = {} THEN Unchanged(img)
        ELSE LET x_min == SetMin(cols)
                 x_max == SetMax(cols)
             IN  Cropped(img, <<x_min, 0, x_max, img.h - 1>>,
                         <<Max(0, x_min - margin), 0,
                           Min(img.w, x_max + 1 + margin), img.h>>)

\* Mutant of content_bbox: the row and column indices are taken for each other.
content_bbox_transposed(coords) ==
    <<SetMin({p[1] : p \in coords}), SetMin({p[2] : p \in coords}),
      SetMax({p[1] : p \in coords}), SetMax({p[2] : p \in coords})>>

\* crop_both_fixed, lines 457-459: the bounding box of the content,
\* <<x_min, y_min, x_max, y_max>> with both corners inclusive.
content_bbox(coords) ==
    <<SetMin({p[2] : p \in coords}), SetMin({p[1] : p \in coords}),
      SetMax({p[2] : p \in coords}), SetMax({p[1] : p \in coords})>>

\* crop_both_fixed
crop_both_fixed(img, t) ==
    LET coords == non_white_coords(img, t)
    IN  IF coords = {} THEN Unchanged(img)
        ELSE LET b == content_bbox(coords)
             IN  Cropped(img, b,
                         <<Max(0, b[1] - margin), Max(0, b[2] - margin),
                           Min(img.w, b[3] + 1 + margin),
                           Min(img.h, b[4] + 1 + margin)>>)

\* ---- Pdf_cropper.py ----

\* image.convert('L'): PIL's ITU-R 601-2 luma, in 16-bit fixed point.
Luma(px) == (px[1] * 19595 + px[2] * 38470 + px[3] * 7471 + 32768) \div 65536

RECURSIVE SumTo(_, _)
SumTo(f, n) == IF n = 0 THEN 0 ELSE f[n - 1] + SumTo(f, n - 1)

\* np.where(np.mean(img_array, axis=1) < white_threshold): rows whose mean
\* grey level is below the threshold (mean < t iff sum < t * width).
cropper_non_white_rows(img, t) ==
    {y \in 0..(img.h - 1) :
        SumTo([x \in 0..(img.w - 1) |-> Luma(img.px[<<y, x>>])], img.w) < t * img.w}

cropper_non_white_cols(img, t) ==
    {x \in 0..(img.w - 1) :
        SumTo([y \in 0..(img.h - 1) |-> Luma(img.px[<<y, x>>])], img.h) < t * img.h}

\* Pdf_cropper.py crop_vertical_only
cropper_crop_vertical_only(img, t) ==
    LET rows == cropper_non_white_rows(img, t)
    IN  IF rows # {}
        THEN LET top == SetMin(rows)
                 bottom == SetMax(rows)
             IN  Cropped(img, <<0, top, img.w - 1, bottom>>,
                         <<0, top, img.w, bottom + 1>>)
        ELSE Unchanged(img)

\* Pdf_cropper.py crop_horizontal_only
cropper_crop_horizontal_only(img, t) ==
    LET cols == cropper_non_white_cols(img, t)
    IN  IF cols # {}
        THEN LET left == SetMin(cols)
                 right == SetMax(cols)
             IN  Cropped(img, <<left, 0, right, img.h - 1>>,
                         <<left, 0, right + 1, img.h>>)
        ELSE Unchanged(img)

\* Pdf_cropper.py crop_both_fixed: vertical, then horizontal on its result.
cropper_crop_both_fixed(img, t) ==
    LET img_vert == cropper_crop_vertical_only(img, t)
        img_both == cropper_crop_horizontal_only(img_vert.image, t)
    IN  [cropped |-> img_vert.cropped \/ img_both.cropped,
         image |-> img_both.image]

\* process_pdf_with_logos, "Step 2: Cropping", of script s with method m.
CropStep(s, m, img, t) ==
    CASE s = "processor" /\ m = "vertical"   -> crop_vertical_only(img, t)
      [] s = "processor" /\ m = "horizontal" -> crop_horizontal_only(img, t)
      [] s = "processor" /\ m = "both"       -> crop_both_fixed(img, t)
      [] s = "cropper" /\ m = "vertical"     -> cropper_crop_vertical_only(img, t)
      [] s = "cropper" /\ m = "horizontal"   -> cropper_crop_horizontal_only(img, t)
      [] s = "cropper" /\ m = "both"         -> cropper_crop_both_fixed(img, t)

NoCrop == [script |-> "none"]
CropIdle == /\ image = MkImage(1, 1, {}, White255)
            /\ threshold = ThresholdDefault /\ cropOut = NoCrop

Scripts == {"processor", "cropper"}
CropResult(s, m) == [script |-> s, method |-> m, out |-> CropStep(s, m, image, threshold)]

\* cropping_method == "vertical"
CropVertical == \E s \in Scripts :
    /\ cropOut = NoCrop
    /\ cropOut' = CropResult(s, "vertical")
    /\ UNCHANGED <<image, threshold, mergeVars, splitVars, logoVars, appVars>>

\* cropping_method == "horizontal"
CropHorizontal == \E s \in Scripts :
    /\ cropOut = NoCrop
    /\ cropOut' = CropResult(s, "horizontal")
    /\ UNCHANGED <<image, threshold, mergeVars, splitVars, logoVars, appVars>>

\* cropping_method == "both"
CropBoth == \E s \in Scripts :
    /\ cropOut = NoCrop
    /\ cropOut' = CropResult(s, "both")
    /\ UNCHANGED <<image, threshold, mergeVars, splitVars, logoVars, appVars>>

CropNext == CropVertical \/ CropHorizontal \/ CropBoth

(***************************************************************************)
(*          Logo setup, logo removal and page processing                    *)
(***************************************************************************)

\* Pages of an uploaded PDF, logos the user sets up (the first MaxLogos of
\* the script's logo slots), and the long side of a page raster.
MaxProcPages == 2
MaxLogos == 2
ProcLong == 24

\* range(1, 5) in pdf_processor_app.py, range(1, 7) in Pdf_cropper.py.
NumLogos(s) == IF s = "processor" THEN 4 ELSE 6

\* The width of the border strips remove_logo_precise samples, and the size
\* visual_logo_selection gives a malformed rectangle.
SampleWidth == 10
RepairSize == 10

\* The raster of page p (page.get_pixmap()): even pages are ProcLong x 1,
\* odd pages 1 x ProcLong; along the long side two white pixels, a band of
\* one colour, a band of another, two white pixels.
Shade(p, k) ==
    IF k < 2 \/ k >= ProcLong - 2 THEN White255
    ELSE IF k < ProcLong \div 2 THEN <<200 - p, 100, 51>>
    ELSE <<100, 100 + p, 100>>
ProcPage(p) ==
    IF p % 2 = 0
    THEN [w |-> ProcLong, h |-> 1, px |-> [q \in Pos(ProcLong, 1) |-> Shade(p, q[2])]]
    ELSE [w |-> 1, h |-> ProcLong, px |-> [q \in Pos(1, ProcLong) |-> Shade(p, q[1])]]

NoImage == MkImage(1, 1, {}, White255)

\* numpy img_array[r0:r1, c0:c1] for non-negative bounds: the positions of
\* the slice, cut off at the array's edges.
Slice(img, r0, r1, c0, c1) ==
    {q \in Pos(img.w, img.h) : r0 <= q[1] /\ q[1] < r1 /\ c0 <= q[2] /\ q[2] < c1}

\* ImageDraw.rectangle([x1, y1, x2, y2], fill): PIL fills both corners
\* inclusive, cut off at the image's edges.
DrawRectangle(img, c, fill) ==
    [img EXCEPT !.px = [q \in Pos(img.w, img.h) |->
        IF c[1] <= q[2] /\ q[2] <= c[3] /\ c[2] <= q[1] /\ q[1] <= c[4]
        THEN fill ELSE img.px[q]]]

\* pdf_processor_app.py remove_logo_precise, lines 363-384: the sample
\* strips that pass their test and are not empty, in the order top, bottom,
\* left, right.
samples(img, c) ==
    LET x1 == c[1]  y1 == c[2]  x2 == c[3]  y2 == c[4]
        top_sample == IF y1 > SampleWidth
                      THEN Slice(img, Max(0, y1 - SampleWidth), y1, x1, x2) ELSE {}
        bottom_sample == IF y2 < img.h - SampleWidth
                         THEN Slice(img, y2, Min(img.h, y2 + SampleWidth), x1, x2) ELSE {}
        left_sample == IF x1 > SampleWidth
                       THEN Slice(img, y1, y2, Max(0, x1 - SampleWidth), x1) ELSE {}
        right_sample == IF x2 < img.w - SampleWidth
                        THEN Slice(img, y1, y2, x2, Min(img.w, x2 + SampleWidth)) ELSE {}
    IN  SelectSeq(<<top_sample, bottom_sample, left_sample, right_sample>>,
                  LAMBDA S : S # {})

\* Sum of channel ch over the pixels at the positions S.
RECURSIVE SumPx(_, _, _)
SumPx(img, S, ch) ==
    IF S = {} THEN 0
    ELSE LET q == CHOOSE q \in S : TRUE
         IN  img.px[q][ch] + SumPx(img, S \ {q}, ch)

RECURSIVE ProdSizes(_, _)
ProdSizes(strips, n) ==
    IF n = 0 THEN 1 ELSE Cardinality(strips[n]) * ProdSizes(strips, n - 1)

RECURSIVE SumOfMeans(_, _, _, _, _)
SumOfMeans(img, strips, ch, n, scale) ==
    IF n = 0 THEN 0
    ELSE SumPx(img, strips[n], ch) * (scale \div Cardinality(strips[n]))
         + SumOfMeans(img, strips, ch, n - 1, scale)

\* tuple(np.mean(samples, axis=0).astype(int)) where each sample is
\* np.mean(strip, axis=(0, 1)): per channel the mean of the strips' means,
\* truncated; computed exactly, all means scaled by the product of the
\* strip sizes.
fill_color(img, strips) ==
    LET scale == ProdSizes(strips, Len(strips))
    IN  [ch \in Channels |->
            SumOfMeans(img, strips, ch, Len(strips), scale) \div (Len(strips) * scale)]

\* pdf_processor_app.py remove_logo_precise (logo_coords is not None).
remove_logo_precise(img, logo_coords, method) ==
    DrawRectangle(img, logo_coords,
                  IF method = "white" THEN White255
                  ELSE IF samples(img, logo_coords) # <<>>
                       THEN fill_color(img, samples(img, logo_coords))
                       ELSE White255)

\* Pdf_cropper.py remove_logo_precise, logo_type "rectangle":
\* img_array[y1:y2, x1:x2] = 255 whatever the method.
cropper_remove_logo_precise(img, coords, method) ==
    [img EXCEPT !.px = [q \in Pos(img.w, img.h) |->
        IF q \in Slice(img, coords[2], coords[4], coords[1], coords[3])
        THEN White255 ELSE img.px[q]]]

RemoveLogo(s, img, coords, method) ==
    IF s = "processor" THEN remove_logo_precise(img, coords, method)
    ELSE cropper_remove_logo_precise(img, coords, method)

\* One logo slot of the logo state: disabled without coordinates, or
\* enabled with a rectangle.
LogoOff == [enabled |-> FALSE, coords |-> NoneVal]
LogoOn(c) == [enabled |-> TRUE, coords |-> Some(c)]

\* Mutant of LogoLoop: the logo slots are walked from the last to the first.
RECURSIVE LogoLoopDescending(_, _, _, _, _)
LogoLoopDescending(s, states, method, i, log) ==
    IF i > NumLogos(s) THEN log
    ELSE LET k == NumLogos(s) + 1 - i
             cur == log[Len(log)]
         IN  LogoLoopDescending(s, states, method, i + 1,
                 Append(log, IF states[k].enabled /\ ~states[k].coords.none
                             THEN RemoveLogo(s, cur, states[k].coords.val, method)
                             ELSE cur))

\* process_pdf_with_logos "Step 1: Logo Removal": slots i, i+1, ... of the
\* loop; log holds the values pil_image has taken, the last one current.
RECURSIVE LogoLoop(_, _, _, _, _)
LogoLoop(s, states, method, i, log) ==
    IF i > NumLogos(s) THEN log
    ELSE LET cur == log[Len(log)]
         IN  LogoLoop(s, states, method, i + 1,
                 Append(log, IF states[i].enabled /\ ~states[i].coords.none
                             THEN RemoveLogo(s, cur, states[i].coords.val, method)
                             ELSE cur))

\* ---- visual_logo_selection (pdf_processor_app.py) ----

\* The value a coordinate input shows when no rectangle is stored.
DefaultCoords(i) ==
    <<50 + (i - 1) * 30, 50 + (i - 1) * 40, 150 + (i - 1) * 30, 100 + (i - 1) * 40>>

\* The size of the raster of the reference page shown during the setup.
RefWidth == 200
RefHeight == 100

\* The rectangles of the buttons "Top-Left Area", "Top-Right Area",
\* "Bottom-Left Area" and "Bottom-Right Area", lines 148-160.
QuickAreas(width, height) ==
    {<<10, 10, 110, 60>>, <<width - 120, 10, width - 20, 60>>,
     <<10, height - 70, 110, height - 20>>,
     <<width - 120, height - 70, width - 20, height - 20>>}

\* Coordinates <<x1, y1, x2, y2>> the user types into the number inputs
\* (each within 0..width or 0..height of the reference page): three boxes
\* in a wide strip, one with x2 <= x1 and y2 <= y1, one in a tall strip.
Entered ==
    {<<11, 0, 13, 1>>, <<5, 0, 12, 1>>, <<5, 0, 18, 1>>, <<11, 0, 5, 0>>,
     <<0, 11, 1, 13>>}

\* Mutant of EnsureValid: a malformed x2 is set to x1.
EnsureValidNoGap(c) ==
    <<c[1], c[2],
      IF c[3] <= c[1] THEN c[1] ELSE c[3],
      IF c[4] <= c[2] THEN c[2] + RepairSize ELSE c[4]>>

\* "Ensure valid coordinates", lines 214-220: logo_coords[i].
EnsureValid(c) ==
    <<c[1], c[2],
      IF c[3] <= c[1] THEN c[1] + RepairSize ELSE c[3],
      IF c[4] <= c[2] THEN c[2] + RepairSize ELSE c[4]>>

WidgetOff(i) == [toggle |-> FALSE, xy |-> DefaultCoords(i)]
InitWidgets(s) == [i \in 1..NumLogos(s) |-> WidgetOff(i)]
InitLogoStates(s) == [i \in 1..NumLogos(s) |-> LogoOff]

\* The toggle "Logo i" is flipped.  Switched on, the coordinate inputs
\* appear with the values a quick-position button has put under their keys,
\* else with the stored rectangle, or the defaults when none is stored.
ToggleLogo == \E i \in 1..MaxLogos :
    /\ procScript = "processor" /\ stage = "idle"
    /\ logo_widgets' =
         [logo_widgets EXCEPT ![i] =
            IF logo_widgets[i].toggle THEN WidgetOff(i)
            ELSE [toggle |-> TRUE,
                  xy |-> IF logo_widgets[i].xy # DefaultCoords(i) THEN logo_widgets[i].xy
                         ELSE IF logo_states[i].coords.none THEN DefaultCoords(i)
                         ELSE logo_states[i].coords.val]]
    /\ UNCHANGED <<logo_states, procScript, procVars, callVars,
                   mergeVars, splitVars, cropVars, appVars>>

\* The user types coordinates into the inputs of an enabled logo.
EnterCoords == \E i \in 1..MaxLogos, e \in Entered :
    /\ procScript = "processor" /\ stage = "idle"
    /\ logo_widgets[i].toggle /\ logo_widgets[i].xy # e
    /\ logo_widgets' = [logo_widgets EXCEPT ![i].xy = e]
    /\ UNCHANGED <<logo_states, procScript, procVars, callVars,
                   mergeVars, splitVars, cropVars, appVars>>

\* A quick-position button is pressed, lines 148-169.  While no rectangle
\* is stored for logo 1 the click rectangle is put under the keys of the
\* inputs of logo 1 and logo1_enabled is set; logo1_coords is not assigned.
\* The toggle of logo 1 is drawn with value=logo1_enabled from the next run
\* on: whether a toggle that is off takes the new value depends on how
\* the Streamlit version identifies a keyed widget, so both are possible.
QuickPosition == \E area \in QuickAreas(RefWidth, RefHeight), t \in BOOLEAN :
    /\ procScript = "processor" /\ stage = "idle"
    /\ IF logo_states[1].coords.none
       THEN /\ logo_states' = [logo_states EXCEPT ![1].enabled = TRUE]
            /\ logo_widgets' = [logo_widgets EXCEPT
                                  ![1] = [toggle |-> logo_widgets[1].toggle \/ t,
                                          xy |-> area]]
       ELSE UNCHANGED <<logo_states, logo_widgets>>
    /\ UNCHANGED <<procScript, procVars, callVars,
                   mergeVars, splitVars, cropVars, appVars>>

\* "Confirm All Logo Areas", lines 323-330.
ConfirmLogos ==
    /\ procScript = "processor" /\ stage = "idle"
    /\ logo_states' =
         [i \in 1..NumLogos(procScript) |->
            IF logo_widgets[i].toggle THEN LogoOn(EnsureValid(logo_widgets[i].xy))
            ELSE LogoOff]
    /\ UNCHANGED <<logo_widgets, procScript, procVars, callVars,
                   mergeVars, splitVars, cropVars, appVars>>

\* The logo states a session can hold when "Process" is pressed: a slot
\* is off, or confirmed with a rectangle, and slot 1 may be enabled by a
\* quick-position button without a rectangle.  In Pdf_cropper.py no input
\* ever enables a logo.
SlotStates(s, i) ==
    IF s = "processor" /\ i <= MaxLogos
    THEN {LogoOff} \cup {LogoOn(EnsureValid(c)) : c \in Entered \cup {DefaultCoords(i)}}
                   \cup (IF i = 1 THEN {[enabled |-> TRUE, coords |-> NoneVal]} ELSE {})
    ELSE {LogoOff}
ConfirmedStates(s) ==
    {f \in [1..NumLogos(s) -> UNION {SlotStates(s, i) : i \in 1..NumLogos(s)}] :
        \A i \in 1..NumLogos(s) : f[i] \in SlotStates(s, i)}

\* ---- process_pdf_with_logos ----

RemovalMethods == {"white", "smart"}
CroppingMethods == {"both", "vertical", "horizontal", "none"}

\* Mutant of append_processed: the finished page is put in front.
append_processed_front(images, img) == <<img>> \o images

\* processed_images.append(pil_image)
append_processed(images, img) == Append(images, img)

\* "Process All Pages" / "Process PDF" pressed: the call begins.
StartProcess == \E rm \in RemovalMethods, cm \in CroppingMethods :
    /\ stage = "idle"
    /\ removal_method' = rm /\ cropping_method' = cm
    /\ processed_images' = <<>>
    /\ stage' = "started"
    /\ UNCHANGED <<proc_total_pages, proc_page_num, pil_image, maskLog, procScript,
                   setupVars, callVars, mergeVars, splitVars, cropVars, appVars>>

\* The loop takes the next page_num and rasterizes the page.
Rasterize ==
    /\ \/ stage = "started" /\ proc_total_pages > 0 /\ proc_page_num' = 0
       \/ stage = "finalized" /\ proc_page_num + 1 < proc_total_pages /\ proc_page_num' = proc_page_num + 1
    /\ pil_image' = ProcPage(proc_page_num')
    /\ maskLog' = <<>>
    /\ stage' = "rasterized"
    /\ UNCHANGED <<removal_method, cropping_method, proc_total_pages, processed_images,
                   procScript, setupVars, callVars, mergeVars, splitVars, cropVars, appVars>>

\* Step 1: Logo Removal.
RemoveLogos ==
    /\ stage = "rasterized"
    /\ LET log == LogoLoop(procScript, logo_states, removal_method, 1, <<pil_image>>)
       IN  maskLog' = log /\ pil_image' = log[Len(log)]
    /\ stage' = "logo-masked"
    /\ UNCHANGED <<removal_method, cropping_method, proc_total_pages, proc_page_num,
                   processed_images, procScript, setupVars, callVars,
                   mergeVars, splitVars, cropVars, appVars>>

\* Step 2: Cropping.
CropPage ==
    /\ stage = "logo-masked"
    /\ pil_image' = IF cropping_method = "none" THEN pil_image
                    ELSE CropStep(procScript, cropping_method, pil_image, threshold).image
    /\ stage' = "cropped"
    /\ UNCHANGED <<removal_method, cropping_method, proc_total_pages, proc_page_num, maskLog,
                   processed_images, procScript, setupVars, callVars,
                   mergeVars, splitVars, cropVars, appVars>>

\* Step 3: Finalize.
FinalizePage ==
    /\ stage = "cropped"
    /\ processed_images' = append_processed(processed_images, pil_image)
    /\ stage' = "finalized"
    /\ UNCHANGED <<removal_method, cropping_method, proc_total_pages, proc_page_num, pil_image,
                   maskLog, procScript, setupVars, callVars,
                   mergeVars, splitVars, cropVars, appVars>>

\* The loop is over: doc.close() and return processed_images.
ReturnImages ==
    /\ \/ stage = "started" /\ proc_total_pages = 0
       \/ stage = "finalized" /\ proc_page_num + 1 = proc_total_pages
    /\ stage' = "done"
    /\ UNCHANGED <<removal_method, cropping_method, proc_total_pages, proc_page_num, pil_image,
                   maskLog, processed_images, procScript, setupVars, callVars,
                   mergeVars, splitVars, cropVars, appVars>>

\* ---- remove_logo_precise called on its own ----
CallRemoveLogo ==
    /\ ~logoArgs.none /\ logoRet.none
    /\ logoRet' = Some(RemoveLogo(procScript, logoArgs.val.image,
                                  logoArgs.val.coords, logoArgs.val.method))
    /\ UNCHANGED <<logoArgs, procScript, setupVars, procVars,
                   mergeVars, splitVars, cropVars, appVars>>

LogoIdle ==
    /\ logo_widgets = InitWidgets(procScript)
    /\ logo_states = InitLogoStates(procScript)
    /\ removal_method = "white" /\ cropping_method = "both"
    /\ proc_total_pages = 0 /\ proc_page_num = 0 /\ stage = "idle"
    /\ pil_image = NoImage /\ maskLog = <<>> /\ processed_images = <<>>
    /\ logoArgs = NoneVal /\ logoRet = NoneVal

(***************************************************************************)
(*         pdf_merger_app.py: merge, invert colours, apply filter           *)
(***************************************************************************)

\* Files the uploader holds at once; the files are told apart by a number.
MaxUpload == 2
FileIds == 1..MaxUpload

\* The lists of distinct files the uploader can hold.
UploadLists ==
    {l \in UNION {[1..n -> FileIds] : n \in 0..MaxUpload} :
        \A i, j \in 1..Len(l) : l[i] = l[j] => i = j}

\* list(range(n))
RangeList(n) == [i \in 1..n |-> i - 1]

\* main(), lines 49-53: "Initialize file order if empty or new files added".
UploadHandling(up, order, files) ==
    IF up # <<>> /\ (order = <<>> \/ Len(order) # Len(up))
    THEN [order |-> RangeList(Len(up)), files |-> up]
    ELSE [order |-> order, files |-> files]

\* The part of a run of main() that writes pdf_files and file_order.
PipeRerun(up, order, files) ==
    LET r == UploadHandling(up, order, files)
    IN  /\ file_order' = r.order
        /\ pdf_files' = r.files

\* The user adds one or more files to the uploader (one file dialog).
AddFiles == \E l \in UploadLists :
    /\ Len(l) > Len(uploaded_files)
    /\ SubSeq(l, 1, Len(uploaded_files)) = uploaded_files
    /\ uploaded_files' = l
    /\ PipeRerun(l, file_order, pdf_files)
    /\ UNCHANGED <<merged_pdf, inverted_pdf, filtered_pdf, sessVars,
                   mergeVars, splitVars, cropVars, logoVars>>

\* The user removes one file from the uploader.
RemoveFile == \E i \in 1..Len(uploaded_files) :
    LET l == SubSeq(uploaded_files, 1, i - 1)
             \o SubSeq(uploaded_files, i + 1, Len(uploaded_files))
    IN  /\ uploaded_files' = l
        /\ PipeRerun(l, file_order, pdf_files)
        /\ UNCHANGED <<merged_pdf, inverted_pdf, filtered_pdf, sessVars,
                       mergeVars, splitVars, cropVars, logoVars>>

\* "Move Up" / "Move Down": move_file_up and move_file_down only show a
\* note; the run goes on as any other.
MoveFile ==
    /\ uploaded_files # <<>>
    /\ PipeRerun(uploaded_files, file_order, pdf_files)
    /\ UNCHANGED <<uploaded_files, merged_pdf, inverted_pdf, filtered_pdf, sessVars,
                   mergeVars, splitVars, cropVars, logoVars>>

\* "Reset Order", lines 83-85, then st.rerun().
ResetOrder ==
    /\ uploaded_files # <<>>
    /\ PipeRerun(uploaded_files, RangeList(Len(uploaded_files)), pdf_files)
    /\ UNCHANGED <<uploaded_files, merged_pdf, inverted_pdf, filtered_pdf, sessVars,
                   mergeVars, splitVars, cropVars, logoVars>>

\* reordered_files = [pdf_files[i] for i in file_order]
reordered_files(files, order) == [k \in 1..Len(order) |-> files[order[k] + 1]]

\* What the three steps return: the artifact and what it was made from.
merge_pdfs_with_progress(files) == [kind |-> "merged", files |-> files]
invert_pdf_colors_with_progress(pdf_data) == [kind |-> "inverted", of |-> pdf_data]
Filters == {"None", "Vibrant", "Soft Tone", "OCV Color", "OCV Black & White"}
apply_filter_to_pdf_with_progress(pdf_data, filter_option) ==
    IF filter_option = "None" THEN pdf_data
    ELSE [kind |-> "filtered", of |-> pdf_data, filter |-> filter_option]

\* Mutant of AfterMerge: the inverted and filtered documents are kept.
AfterMergeKeeps(m, inv, fil) == [merged |-> Some(m), inverted |-> inv, filtered |-> fil]

\* Lines 107-109: session state after a merge.
AfterMerge(m, inv, fil) == [merged |-> Some(m), inverted |-> NoneVal, filtered |-> NoneVal]

\* "Merge PDFs", lines 92-109 (the button is drawn when pdf_files is not empty).
MergePdfs ==
    /\ LET r == UploadHandling(uploaded_files, file_order, pdf_files)
       IN  /\ r.files # <<>>
           /\ LET a == AfterMerge(merge_pdfs_with_progress(reordered_files(r.files, r.order)),
                                  inverted_pdf, filtered_pdf)
              IN  /\ merged_pdf' = a.merged
                  /\ inverted_pdf' = a.inverted
                  /\ filtered_pdf' = a.filtered
    /\ PipeRerun(uploaded_files, file_order, pdf_files)
    /\ UNCHANGED <<uploaded_files, sessVars, mergeVars, splitVars, cropVars, logoVars>>

\* "Invert PDF (Negative)", lines 129-141.
InvertPdf ==
    /\ ~merged_pdf.none
    /\ inverted_pdf' = Some(invert_pdf_colors_with_progress(merged_pdf.val))
    /\ filtered_pdf' = NoneVal
    /\ PipeRerun(uploaded_files, file_order, pdf_files)
    /\ UNCHANGED <<uploaded_files, merged_pdf, sessVars,
                   mergeVars, splitVars, cropVars, logoVars>>

\* "Apply Filter", lines 160-179, with the filter chosen in the selectbox.
ApplyFilter == \E filter_option \in Filters :
    /\ ~inverted_pdf.none
    /\ filtered_pdf' = Some(apply_filter_to_pdf_with_progress(inverted_pdf.val,
                                                             filter_option))
    /\ PipeRerun(uploaded_files, file_order, pdf_files)
    /\ UNCHANGED <<uploaded_files, merged_pdf, inverted_pdf, sessVars,
                   mergeVars, splitVars, cropVars, logoVars>>

\* Lines 28-37: session state of a new session.
PipeIdle ==
    /\ uploaded_files = <<>> /\ pdf_files = <<>> /\ file_order = <<>>
    /\ merged_pdf = NoneVal /\ inverted_pdf = NoneVal /\ filtered_pdf = NoneVal

(***************************************************************************)
(*     Session of the processor scripts: upload, preview, process           *)
(***************************************************************************)

\* PDFs a user has at hand.  A PDF has an identity, a page count and maybe
\* a page on which logo removal or cropping raises (bad; NoBadPage: none).
MaxSessDocs == 2
NoBadPage == 0 - 1
SessDocs ==
    UNION {{[id |-> i, pages |-> n, bad |-> b] : b \in NoBadPage..(n - 1)} :
              <<i, n>> \in (1..MaxSessDocs) \X (1..MaxProcPages)}

\* The raster of page p of PDF d, and the image processing makes of it.
RasterOf(d, p) == [doc |-> d.id, page |-> p, processed |-> FALSE]
ProcessedOf(d, p) == [doc |-> d.id, page |-> p, processed |-> TRUE]

\* get_all_page_images(pdf_file)
get_all_page_images(d) == [i \in 1..d.pages |-> RasterOf(d, i - 1)]

\* "Extract all pages for logo setup": pdf_processor_app.py lines 622-628,
\* Pdf_cropper.py lines 323-329.
LoadPages(up, images) ==
    IF ~up.none /\ images.none THEN Some(get_all_page_images(up.val)) ELSE images

\* process_pdf_with_logos(uploaded_pdf, ...) as the caller sees it: the
\* pages the loop took up, the images appended so far, and whether the
\* loop body raised.
process_pdf_with_logos(d) ==
    LET finished == IF d.bad = NoBadPage THEN d.pages ELSE d.bad
        taken == IF d.bad = NoBadPage THEN d.pages ELSE d.bad + 1
    IN  [raised |-> d.bad # NoBadPage,
         tried |-> RangeList(taken),
         images |-> [i \in 1..finished |-> ProcessedOf(d, i - 1)]]

\* Mutant of StoreResult: what was processed before the failure is stored.
StoreResultPartial(s, r, images, done) ==
    [images |-> Some(r.images), done |-> IF s = "processor" THEN TRUE ELSE done]

\* pdf_processor_app.py lines 729-730 in the try block; Pdf_cropper.py line
\* 393.  When the call raises, the assignments are not reached.
StoreResult(s, r, images, done) ==
    IF r.raised THEN [images |-> images, done |-> done]
    ELSE [images |-> Some(r.images), done |-> IF s = "processor" THEN TRUE ELSE done]

NoProcessUI == [shown |-> "nothing", tried |-> <<>>]

\* The uploader gets another PDF, or is emptied.
SessUpload == \E up \in {Some(d) : d \in SessDocs} \cup {NoneVal} :
    /\ up # uploaded_pdf
    /\ uploaded_pdf' = up
    /\ all_page_images' = LoadPages(up, all_page_images)
    /\ processUI' = NoProcessUI
    /\ UNCHANGED <<session_processed_images, processing_done, pipeVars,
                   mergeVars, splitVars, cropVars, logoVars>>

\* "Process All Pages" (pdf_processor_app.py lines 698-736, in try/except)
\* or "Process PDF" (Pdf_cropper.py lines 385-409, no handler).
ProcessAll ==
    /\ ~uploaded_pdf.none
    /\ LET r == process_pdf_with_logos(uploaded_pdf.val)
           st == StoreResult(procScript, r, session_processed_images, processing_done)
       IN  /\ session_processed_images' = st.images
           /\ processing_done' = st.done
           /\ processUI' = [shown |-> IF ~r.raised THEN "success"
                                      ELSE IF procScript = "processor" THEN "error"
                                      ELSE "exception",
                            tried |-> r.tried]
    /\ all_page_images' = LoadPages(uploaded_pdf, all_page_images)
    /\ UNCHANGED <<uploaded_pdf, pipeVars, mergeVars, splitVars, cropVars, logoVars>>

\* "Process Another PDF" (pdf_processor_app.py lines 822-824):
\* st.session_state.clear() and st.rerun().  Whether the uploader keeps its
\* file after its widget state was cleared is up to Streamlit.
ProcessAnother == \E up \in {uploaded_pdf, NoneVal} :
    /\ procScript = "processor"
    /\ ~uploaded_pdf.none /\ processing_done
    /\ uploaded_pdf' = up
    /\ all_page_images' = LoadPages(up, NoneVal)
    /\ session_processed_images' = NoneVal
    /\ processing_done' = FALSE
    /\ processUI' = NoProcessUI
    /\ logo_widgets' = InitWidgets(procScript)
    /\ logo_states' = InitLogoStates(procScript)
    /\ UNCHANGED <<procScript, procVars, callVars, pipeVars,
                   mergeVars, splitVars, cropVars>>

SessIdle ==
    /\ uploaded_pdf = NoneVal /\ all_page_images = NoneVal
    /\ session_processed_images = NoneVal /\ processing_done = FALSE
    /\ processUI = NoProcessUI

AppIdle == PipeIdle /\ SessIdle

(***************************************************************************)
(*                          Specifications                                  *)
(***************************************************************************)

MergeInit == /\ MergeIdle /\ variant = "S4" /\ SplitIdle /\ AppIdle /\ CropIdle
             /\ procScript = "processor" /\ LogoIdle
MergeNext == UploadPdf1 \/ UploadPdf2 \/ ClickMerge
SpecMerge == MergeInit /\ [][MergeNext]_vars

SplitInit == /\ MergeIdle /\ variant \in Variants /\ SplitIdle /\ AppIdle /\ CropIdle
             /\ procScript = "processor" /\ LogoIdle
SpecSplit == SplitInit /\ [][SplitNext]_vars

CropInit == /\ MergeIdle /\ variant = "S4" /\ SplitIdle /\ AppIdle
            /\ threshold \in Thresholds
            /\ image \in Images(threshold)
            /\ cropOut = NoCrop
            /\ procScript = "processor" /\ LogoIdle
SpecCrop == CropInit /\ [][CropNext]_vars

\* Logo setup of pdf_processor_app.py.
SetupInit == /\ MergeIdle /\ variant = "S4" /\ SplitIdle /\ AppIdle /\ CropIdle
             /\ procScript = "processor" /\ LogoIdle
SetupNext == ToggleLogo \/ EnterCoords \/ QuickPosition \/ ConfirmLogos
SpecSetup == SetupInit /\ [][SetupNext]_vars

\* One run of process_pdf_with_logos, from a logo state a session can hold.
ProcInit == /\ MergeIdle /\ variant = "S4" /\ SplitIdle /\ AppIdle /\ CropIdle
            /\ procScript \in Scripts
            /\ logo_widgets = InitWidgets(procScript)
            /\ logo_states \in ConfirmedStates(procScript)
            /\ removal_method = "white" /\ cropping_method = "both"
            /\ proc_total_pages \in 0..MaxProcPages
            /\ proc_page_num = 0 /\ stage = "idle"
            /\ pil_image = NoImage /\ maskLog = <<>> /\ processed_images = <<>>
            /\ logoArgs = NoneVal /\ logoRet = NoneVal
ProcNext == \/ StartProcess \/ Rasterize \/ RemoveLogos \/ CropPage
            \/ FinalizePage \/ ReturnImages
SpecProcess == ProcInit /\ [][ProcNext]_vars

\* remove_logo_precise applied to a page and a rectangle.
CallInit == /\ MergeIdle /\ variant = "S4" /\ SplitIdle /\ AppIdle /\ CropIdle
            /\ procScript \in Scripts
            /\ logo_widgets = InitWidgets(procScript)
            /\ logo_states = InitLogoStates(procScript)
            /\ removal_method = "white" /\ cropping_method = "both"
            /\ proc_total_pages = 0 /\ proc_page_num = 0 /\ stage = "idle"
            /\ pil_image = NoImage /\ maskLog = <<>> /\ processed_images = <<>>
            /\ logoArgs \in {Some([image |-> ProcPage(p), coords |-> EnsureValid(e),
                                    method |-> m]) :
                                 p \in 0..MaxProcPages, e \in Entered,
                                 m \in RemovalMethods}
            /\ logoRet = NoneVal
CallNext == CallRemoveLogo
SpecCall == CallInit /\ [][CallNext]_vars

\* pdf_merger_app.py.
PipeInit == /\ MergeIdle /\ variant = "S4" /\ SplitIdle /\ AppIdle /\ CropIdle
            /\ procScript = "processor" /\ LogoIdle
PipeNext == \/ AddFiles \/ RemoveFile \/ MoveFile \/ ResetOrder
            \/ MergePdfs \/ InvertPdf \/ ApplyFilter
SpecPipe == PipeInit /\ [][PipeNext]_vars

\* A session of pdf_processor_app.py or of Pdf_cropper.py.
SessInit == /\ MergeIdle /\ variant = "S4" /\ SplitIdle /\ AppIdle /\ CropIdle
            /\ procScript \in Scripts
            /\ LogoIdle
SessNext == SessUpload \/ ProcessAll \/ ProcessAnother
SpecSession == SessInit /\ [][SessNext]_vars

(***************************************************************************)
(*                     Claims on PDF_Merger.py                              *)
(***************************************************************************)

MergeRan == ~mergeRet.none
BothRead == pdf1.present /\ pdf2.present /\ pdf1.fault = "none" /\ pdf2.fault = "none"

\* C1: merging two documents of n and m pages that both read without error
\* yields a document of exactly n + m pages, and "Merged Pages" shows n + m.
C1_PageCount ==
    (MergeRan /\ BothRead) =>
        /\ ~mergeRet.val.buffer.none
        /\ Len(mergeRet.val.buffer.val) = pdf1.n + pdf2.n
        /\ mergeUI.shown = "success_download"
        /\ mergeUI.merged_pages = pdf1.n + pdf2.n
        /\ mergeUI.merged_pages = Len(mergeUI.data)

C1_Witness ==
    /\ MergeRan /\ BothRead /\ pdf1.n = 4 /\ pdf2.n = 1
    /\ Len(mergeRet.val.buffer.val) = 5
    /\ mergeUI.merged_pages = 5

\* Output page k (0-indexed) of the alternating merge of n and m pages, as
\* the specification words it.
ExpectedPage(n, m, k) ==
    LET lo == Min(n, m)
    IN  IF k < 2 * lo
        THEN IF k % 2 = 0 THEN Page(1, k \div 2) ELSE Page(2, (k - 1) \div 2)
        ELSE Page(IF n > m THEN 1 ELSE 2, k - lo)

\* C2: the merged document is A0,B0,A1,B1,...; after the shorter input is
\* exhausted the rest of the longer one follows in its order, so every
\* input page appears exactly once.
C2_Interleaved ==
    (MergeRan /\ BothRead) =>
        LET out == mergeRet.val.buffer.val
            n == pdf1.n
            m == pdf2.n
        IN  /\ out = [k \in 1..(n + m) |-> ExpectedPage(n, m, k - 1)]
            /\ \A i \in 0..(n - 1) : Cardinality({k \in 1..Len(out) : out[k] = Page(1, i)}) = 1
            /\ \A i \in 0..(m - 1) : Cardinality({k \in 1..Len(out) : out[k] = Page(2, i)}) = 1

C2_Witness ==
    /\ MergeRan /\ BothRead /\ pdf1.n = 3 /\ pdf2.n = 5
    /\ mergeRet.val.buffer.val =
         <<Page(1, 0), Page(2, 0), Page(1, 1), Page(2, 1), Page(1, 2), Page(2, 2),
           Page(2, 3), Page(2, 4)>>

\* C10: when reading either input raises, merge_pdfs_alternating returns no
\* buffer and an error message, and main() shows the error and offers no
\* download.
C10_FailsAtomically ==
    (MergeRan /\ ~BothRead) =>
        /\ mergeRet.val.buffer.none
        /\ ~mergeRet.val.error.none
        /\ mergeUI.shown = "error"

(***************************************************************************)
(*                     Claims on the splitter scripts                       *)
(***************************************************************************)

Generated == splitOut.status = "ok"
DocPages == 0..(Len(doc) - 1)

\* The output pages that come from input page p, in output order.
PageOut(p) == SelectSeq(splitOut.pages, LAMBDA e : e.page = p)

\* What is stored for page p, and the distinct offsets among it that lie
\* strictly inside the page: percentages in "S4", coordinates otherwise.
Stored(p) == DictGet(split_data, p, <<>>)
InteriorOffsets(p) ==
    IF variant = "S4"
    THEN {s \in SeqToSet(Stored(p)) : SliderMin < s /\ s < SliderMax}
    ELSE {x \in SeqToSet(Stored(p)) : 0 < x /\ x < doc[p + 1]}

\* C3 (as claimed): in PDF_Splitter(4).py and Pdf_splitter(3).py the number
\* of segments emitted for a page is the number of distinct interior
\* offsets configured for it, plus one.
C3_SegmentCount ==
    (Generated /\ variant \in {"S4", "s3"}) =>
        \A p \in DocPages : Len(PageOut(p)) = Cardinality(InteriorOffsets(p)) + 1

RECURSIVE SumExtents(_, _)
SumExtents(segs, n) ==
    IF n = 0 THEN 0 ELSE (segs[n].right - segs[n].left) + SumExtents(segs, n - 1)

\* C4: the segments of a split page come in increasing coordinate order
\* and partition the page: the first starts at 0, each starts where the
\* one before ends, the last ends at the page width, and the widths add up
\* to the page width, whatever the order the offsets were entered in.
C4_Partition ==
    (Generated /\ variant \in {"S4", "s3", "s1"}) =>
        \A p \in DocPages :
            LET segs == PageOut(p)
            IN  (Len(segs) > 0 /\ segs[1].kind = "seg") =>
                    /\ \A i \in 1..Len(segs) :
                          segs[i].kind = "seg" /\ segs[i].left <= segs[i].right
                    /\ segs[1].left = 0
                    /\ \A i \in 1..(Len(segs) - 1) : segs[i + 1].left = segs[i].right
                    /\ segs[Len(segs)].right = doc[p + 1]
                    /\ SumExtents(segs, Len(segs)) = doc[p + 1]

C4_Witness ==
    /\ Generated /\ variant = "s3" /\ Len(doc) = 1
    /\ Stored(0) = <<150, 50>>
    /\ splitOut.pages = <<Seg(0, 0, 50), Seg(0, 50, 150), Seg(0, 150, 200)>>

\* A page with no valid offset: nothing stored, an empty list, or (sliders)
\* no value other than 0 and 100.
NoValidOffset(p) ==
    \/ p \notin DictKeys(split_data)
    \/ Stored(p) = <<>>
    \/ variant = "S4" /\ SeqToSet(Stored(p)) \subseteq {SliderMin, SliderMax}

\* C5: a page with no valid offset is emitted exactly once, as the
\* original page.
C5_NoOffsetsNoOp ==
    (Generated /\ variant \in {"S4", "s3", "s1"}) =>
        \A p \in DocPages : NoValidOffset(p) => PageOut(p) = <<Orig(p)>>

C5_Witness ==
    /\ Generated /\ variant = "S4" /\ Len(doc) = 2
    /\ Stored(0)[1] = SliderMax /\ Stored(0)[2] = SliderMin
    /\ 1 \notin DictKeys(split_data)
    /\ splitOut.pages = <<Orig(0), Orig(1)>>

\* C6 (as claimed): in every splitter variant Generate Split PDF emits, for
\* every page of the document in increasing page order, the segments of
\* the page or the unmodified page; no page is dropped.
C6_CoversDocument ==
    (splitOut.status # "none") =>
        /\ Generated
        /\ \A p \in DocPages : Len(PageOut(p)) >= 1
        /\ \A i \in 1..Len(splitOut.pages), j \in 1..Len(splitOut.pages) :
              i < j => splitOut.pages[i].page <= splitOut.pages[j].page
        /\ \A p \in DocPages :
              /\ InteriorOffsets(p) # {} => PageOut(p)[1].kind = "seg"
              /\ Stored(p) = <<>> => PageOut(p) = <<Orig(p)>>

\* The coordinates at which the output of page p is cut: where one segment
\* ends and the next begins.
Cuts(p) == {PageOut(p)[i].right : i \in 1..(Len(PageOut(p)) - 1)}

\* C11: in the percentage-slider script every coordinate create_split_pdf
\* cuts at comes from a slider value strictly between 0 and 100 and lies
\* strictly inside the page; sliders at 0 or 100 make no cut, and 0 and the
\* full extent are only the outer boundaries of the first and last segment.
C11_PercentCutsInterior ==
    (Generated /\ variant = "S4") =>
        \A p \in DocPages :
            /\ \A c \in Cuts(p) :
                  /\ 0 < c /\ c < doc[p + 1]
                  /\ \E s \in SeqToSet(Stored(p)) :
                        /\ SliderMin < s /\ s < SliderMax
                        /\ c * 100 = s * doc[p + 1]
            /\ PageOut(p)[1].kind = "seg" =>
                  /\ PageOut(p)[1].left = 0
                  /\ PageOut(p)[Len(PageOut(p))].right = doc[p + 1]
                  /\ Cuts(p) # {}

C11_Witness ==
    /\ Generated /\ variant = "S4" /\ Len(doc) = 1
    /\ Stored(0)[1] = SliderMax /\ Stored(0)[2] = 25
    /\ \A i \in 3..NumSliders : Stored(0)[i] = SliderMin
    /\ splitOut.pages = <<Seg(0, 0, 50), Seg(0, 50, 200)>>

\* C12 (as claimed): in the click scripts every offset stored in
\* split_data, and so every offset create_split_pdf cuts at, lies strictly
\* between 0 and the width of its page.
C12_ClickOffsetsInterior ==
    (variant \in {"s3", "s1"}) =>
        /\ \A p \in DictKeys(split_data) :
              \A x \in SeqToSet(Stored(p)) : 0 < x /\ x < doc[p + 1]
        /\ Generated =>
              \A p \in DocPages : \A c \in Cuts(p) : 0 < c /\ c < doc[p + 1]

\* C13 (as claimed): duplicate offsets collapse and no zero-width segment
\* is emitted: every segment page of the output has right - left > 0,
\* whatever slider values or click offsets were set.
C13_NoZeroWidthSegment ==
    Generated =>
        \A i \in 1..Len(splitOut.pages) :
            splitOut.pages[i].kind = "seg" =>
                splitOut.pages[i].right - splitOut.pages[i].left > 0

CropRan == cropOut.script # "none"

\* A pixel is white when every channel reaches the threshold; content is
\* a pixel with some channel below it.
IsWhite(px, t) == \A c \in Channels : px[c] >= t
Content(img, t) == {p \in Pos(img.w, img.h) : ~IsWhite(img.px[p], t)}

\* C7: on an image whose pixels are all white, every crop mode of both
\* processor scripts returns the original image unchanged.
C7_AllWhiteNoOp ==
    (CropRan /\ Content(image, threshold) = {}) =>
        /\ ~cropOut.out.cropped
        /\ cropOut.out.image = image

C7_Witness ==
    /\ CropRan /\ cropOut.script = "processor" /\ cropOut.method = "both"
    /\ Content(image, threshold) = {}
    /\ \E p \in Pos(image.w, image.h) : image.px[p] # White255
    /\ cropOut.out.image = image

\* C8: with exactly one non-white pixel, at (x, y), crop_both_fixed of
\* pdf_processor_app.py finds, before the margin is added, x_min = x,
\* y_min = y and the exclusive far corner (x + 1, y + 1).
C8_SinglePixelBox ==
    (CropRan /\ cropOut.script = "processor" /\ cropOut.method = "both") =>
        LET content == Content(image, threshold)
        IN  Cardinality(content) = 1 =>
                LET y == (CHOOSE p \in content : TRUE)[1]
                    x == (CHOOSE p \in content : TRUE)[2]
                IN  /\ cropOut.out.cropped
                    /\ cropOut.out.bbox[1] = x
                    /\ cropOut.out.bbox[2] = y
                    /\ cropOut.out.bbox[3] + 1 = x + 1
                    /\ cropOut.out.bbox[4] + 1 = y + 1

C8_Witness ==
    /\ CropRan /\ cropOut.script = "processor" /\ cropOut.method = "both"
    /\ image.w = MaxLong
    /\ Content(image, threshold) = {<<1, 7>>}
    /\ cropOut.out.bbox = <<7, 1, 7, 1>>

\* lo..hi (hi exclusive) is first..last widened by the margin on both
\* sides and cut off at 0 and at dim.
Expanded(lo, hi, first, last, dim) ==
    /\ lo = (IF first - margin < 0 THEN 0 ELSE first - margin)
    /\ hi = (IF last + 1 + margin > dim THEN dim ELSE last + 1 + margin)
    /\ 0 <= lo /\ lo < hi /\ hi <= dim

\* C9 (as claimed): when content exists, each crop function of pdf_processor_app.py
\* crops to the content's bounding box widened by exactly 5 pixels on each
\* cropped side and clamped to the image; the rectangle satisfies
\* 0 <= min < max <= dimension, contains every content pixel, and spans the
\* full extent of an axis that is not cropped.
C9_CropRectangle ==
    (CropRan /\ cropOut.script = "processor") =>
        LET content == Content(image, threshold)
            xs == {p[2] : p \in content}
            ys == {p[1] : p \in content}
            b == cropOut.out.box
            m == cropOut.method
        IN  content # {} =>
            /\ cropOut.out.cropped
            /\ IF m = "vertical" THEN b[1] = 0 /\ b[3] = image.w
               ELSE Expanded(b[1], b[3], SetMin(xs), SetMax(xs), image.w)
            /\ IF m = "horizontal" THEN b[2] = 0 /\ b[4] = image.h
               ELSE Expanded(b[2], b[4], SetMin(ys), SetMax(ys), image.h)
            /\ \A p \in content :
                  b[1] <= p[2] /\ p[2] < b[3] /\ b[2] <= p[1] /\ p[1] < b[4]
            /\ cropOut.out.image.w = b[3] - b[1]
            /\ cropOut.out.image.h = b[4] - b[2]
            /\ \A q \in Pos(b[3] - b[1], b[4] - b[2]) :
                  cropOut.out.image.px[q] = image.px[<<q[1] + b[2], q[2] + b[1]>>]

\* The classification the specification words: a pixel is white iff every
\* channel exceeds the threshold; any other pixel is content.
ExceedsContent(img, t) ==
    {p \in Pos(img.w, img.h) : ~(\A c \in Channels : img.px[p][c] > t)}

\* C14 (as claimed): in both processor scripts and in every crop mode a
\* pixel is content iff one of its channels is equal to or below the
\* threshold: an image is cropped exactly when it has such a pixel, and
\* every such pixel lies inside the crop rectangle.
C14_WhiteClassification ==
    CropRan =>
        LET content == ExceedsContent(image, threshold)
            out == cropOut.out
        IN  /\ out.cropped <=> content # {}
            /\ (out.cropped /\ cropOut.script = "processor") =>
                  \A p \in content :
                      /\ out.box[1] <= p[2] /\ p[2] < out.box[3]
                      /\ out.box[2] <= p[1] /\ p[1] < out.box[4]

\* C15 (as claimed): in both scripts crop mode "both" returns exactly the
\* image that cropping vertically and then cropping the result
\* horizontally returns.
C15_BothIsVerticalThenHorizontal ==
    (CropRan /\ cropOut.method = "both") =>
        cropOut.out.image =
            CropStep(cropOut.script, "horizontal",
                     CropStep(cropOut.script, "vertical", image, threshold).image,
                     threshold).image

\* C30 (as claimed): the crop functions of pdf_processor_app.py are
\* idempotent: cropping the image a crop returned, with the same function
\* and threshold, gives back that image (same size, same pixels).
C30_CropIdempotent ==
    (CropRan /\ cropOut.script = "processor") =>
        CropStep("processor", cropOut.method, cropOut.out.image, threshold).image
            = cropOut.out.image

(***************************************************************************)
(*             Claims on logo setup, logo removal and processing            *)
(***************************************************************************)

\* Logo slot i is applied: enabled and with coordinates.
Applies(i) == logo_states[i].enabled /\ ~logo_states[i].coords.none

\* The fill remove_logo_precise gives a rectangle c on image img.
FillOf(img, c, method) ==
    IF method = "white" \/ samples(img, c) = <<>> THEN White255
    ELSE fill_color(img, samples(img, c))

\* The pixels the rectangle c covers (both corners included, as drawn).
Covers(c, q) == c[1] <= q[2] /\ q[2] <= c[3] /\ c[2] <= q[1] /\ q[1] <= c[4]

\* C16: the logo loop of process_pdf_with_logos visits the slots in
\* increasing order; a slot that is disabled or has no coordinates leaves
\* the image as it is, an enabled one is applied to the image the previous
\* slots left; a pixel no applied region covers keeps its value and a
\* covered one ends with the fill of the highest-numbered region covering it.
C16_LogoOrder ==
    (maskLog # <<>>) =>
        LET n == NumLogos(procScript)
            final == maskLog[Len(maskLog)]
        IN  /\ Len(maskLog) = n + 1
            /\ maskLog[1] = ProcPage(proc_page_num)
            /\ stage = "logo-masked" => pil_image = final
            /\ \A i \in 1..n :
                  maskLog[i + 1] =
                      IF Applies(i)
                      THEN RemoveLogo(procScript, maskLog[i],
                                      logo_states[i].coords.val, removal_method)
                      ELSE maskLog[i]
            /\ \A q \in Pos(final.w, final.h) :
                  LET cover == {i \in 1..n :
                                  Applies(i) /\ Covers(logo_states[i].coords.val, q)}
                  IN  final.px[q] =
                        IF cover = {} THEN maskLog[1].px[q]
                        ELSE FillOf(maskLog[SetMax(cover)],
                                    logo_states[SetMax(cover)].coords.val,
                                    removal_method)

\* Logo 1 gets the average of its border strips, logo 2 covers it and has
\* no strip to sample: the pixels of logo 1 end white.
C16_Witness ==
    /\ stage = "logo-masked" /\ procScript = "processor" /\ removal_method = "smart"
    /\ proc_page_num = 0
    /\ logo_states[1] = LogoOn(<<11, 0, 13, 1>>)
    /\ logo_states[2] = LogoOn(<<5, 0, 18, 1>>)
    /\ maskLog[2].px[<<0, 12>>] \notin {White255, maskLog[1].px[<<0, 12>>]}
    /\ pil_image.px[<<0, 12>>] = White255

\* C28 (as claimed): in every session state of pdf_processor_app.py a logo
\* that is enabled has its coordinates set, also after a quick-position
\* button was pressed.
C28_EnabledHasCoords ==
    \A i \in 1..NumLogos(procScript) :
        logo_states[i].enabled => ~logo_states[i].coords.none

\* C17 (as claimed): in both scripts remove_logo_precise fills the
\* rectangle with flat white under method "white", and under "smart" with
\* the average of the border strips that qualify, or flat white when none
\* qualifies; pixels outside the rectangle keep their value.
C17_SmartFill ==
    (~logoRet.none) =>
        LET img == logoArgs.val.image
            c == logoArgs.val.coords
            out == logoRet.val
            qualifying == samples(img, c)
            expected == IF logoArgs.val.method = "white" \/ qualifying = <<>>
                        THEN White255
                        ELSE fill_color(img, qualifying)
        IN  /\ out.w = img.w /\ out.h = img.h
            /\ \A q \in Pos(img.w, img.h) :
                  /\ q \in Slice(img, c[2], c[4], c[1], c[3]) => out.px[q] = expected
                  /\ ~Covers(c, q) => out.px[q] = img.px[q]

\* The page a finished run holds for input page p.
Derived(p) ==
    LET masked == LogoLoop(procScript, logo_states, removal_method, 1,
                           <<ProcPage(p)>>)[NumLogos(procScript) + 1]
    IN  IF cropping_method = "none" THEN masked
        ELSE CropStep(procScript, cropping_method, masked, threshold).image

\* C18: a page goes rasterized -> logo-masked -> cropped -> finalized, one
\* stage at a time and never back; pages are taken in increasing index
\* order, the next one only after the one before is finalized; and when
\* the run is over processed_images has one image per page, the i-th
\* derived from page i.
C18_StagesInOrder ==
    /\ [][(stage' # stage \/ proc_page_num' # proc_page_num) =>
            \/ stage = "idle" /\ stage' = "started"
                 /\ proc_page_num' = proc_page_num
            \/ stage = "started" /\ stage' = "rasterized" /\ proc_page_num' = 0
            \/ stage = "finalized" /\ stage' = "rasterized"
                 /\ proc_page_num' = proc_page_num + 1
            \/ stage = "rasterized" /\ stage' = "logo-masked"
                 /\ proc_page_num' = proc_page_num
            \/ stage = "logo-masked" /\ stage' = "cropped"
                 /\ proc_page_num' = proc_page_num
            \/ stage = "cropped" /\ stage' = "finalized"
                 /\ proc_page_num' = proc_page_num
                 /\ Len(processed_images') = proc_page_num + 1
            \/ stage \in {"started", "finalized"} /\ stage' = "done"
                 /\ proc_page_num' = proc_page_num]_vars
    /\ [](stage \in {"rasterized", "logo-masked", "cropped"} =>
            Len(processed_images) = proc_page_num /\ proc_page_num < proc_total_pages)
    /\ [](stage = "done" =>
            /\ Len(processed_images) = proc_total_pages
            /\ \A i \in 1..proc_total_pages : processed_images[i] = Derived(i - 1))

C18_Witness ==
    /\ stage = "done" /\ proc_total_pages = 2 /\ Len(processed_images) = 2
    /\ processed_images[1].h = 1 /\ processed_images[2].w = 1
    /\ processed_images[1] # ProcPage(0)

\* C19: "Confirm All Logo Areas" stores, for every enabled logo, the
\* entered rectangle with x2 set to x1 + 10 when x2 <= x1 and y2 set to
\* y1 + 10 when y2 <= y1, and nothing for a disabled one; every stored
\* rectangle has x2 > x1 and y2 > y1.
C19_RectangleRepaired ==
    /\ [](\A i \in 1..NumLogos(procScript) :
            ~logo_states[i].coords.none =>
                /\ logo_states[i].coords.val[3] > logo_states[i].coords.val[1]
                /\ logo_states[i].coords.val[4] > logo_states[i].coords.val[2])
    /\ [][ConfirmLogos =>
            \A i \in 1..NumLogos(procScript) :
                LET e == logo_widgets[i].xy
                IN  IF logo_widgets[i].toggle
                    THEN logo_states'[i].coords =
                           Some(<<e[1], e[2],
                                  IF e[3] <= e[1] THEN e[1] + 10 ELSE e[3],
                                  IF e[4] <= e[2] THEN e[2] + 10 ELSE e[4]>>)
                    ELSE logo_states'[i].coords.none]_vars

C19_Witness ==
    /\ logo_widgets[1].toggle /\ logo_widgets[1].xy = <<11, 0, 5, 0>>
    /\ logo_states[1] = LogoOn(<<11, 0, 21, 10>>)
    /\ logo_states[2] = LogoOn(<<5, 0, 12, 1>>)

(***************************************************************************)
(*                    Claims on pdf_merger_app.py                           *)
(***************************************************************************)

\* C26: in every session state filtered_pdf set implies inverted_pdf set,
\* which implies merged_pdf set; the inverted document is the inversion of
\* the current merged one and the filtered document a filtering of the
\* current inverted one; a merge clears inverted_pdf and filtered_pdf, an
\* inversion clears filtered_pdf.
C26_PipelineOrdered ==
    /\ [](/\ ~filtered_pdf.none => ~inverted_pdf.none
          /\ ~inverted_pdf.none => ~merged_pdf.none
          /\ ~inverted_pdf.none =>
                inverted_pdf.val = invert_pdf_colors_with_progress(merged_pdf.val)
          /\ ~filtered_pdf.none =>
                \E f \in Filters :
                    filtered_pdf.val =
                        apply_filter_to_pdf_with_progress(inverted_pdf.val, f))
    /\ [][MergePdfs => ~merged_pdf'.none /\ inverted_pdf'.none /\ filtered_pdf'.none]_vars
    /\ [][InvertPdf => ~inverted_pdf'.none /\ filtered_pdf'.none]_vars

\* All three artifacts are there, the filtered one made with a real filter
\* from the merge of two files.
C26_Witness ==
    /\ ~merged_pdf.none /\ ~inverted_pdf.none /\ ~filtered_pdf.none
    /\ Len(merged_pdf.val.files) = 2
    /\ filtered_pdf.val.kind = "filtered"
    /\ filtered_pdf.val.of.of = merged_pdf.val

\* C27 (as claimed): in every session state pdf_files is the list the
\* uploader holds and file_order is a permutation of its indices.
C27_MergesCurrentUpload ==
    /\ pdf_files = uploaded_files
    /\ Len(file_order) = Len(pdf_files)
    /\ SeqToSet(file_order) = {k - 1 : k \in 1..Len(pdf_files)}

(***************************************************************************)
(*              Claims on the session of the processor scripts              *)
(***************************************************************************)

\* The results section (downloads, before/after) is on the page.
ResultsOffered ==
    IF procScript = "processor" THEN ~uploaded_pdf.none /\ processing_done
    ELSE ~session_processed_images.none /\ session_processed_images.val # <<>>

\* C21 (as claimed): the page images shown for a PDF, and the processed
\* images offered, come from the PDF the uploader holds now.
C21_DerivedFromCurrentUpload ==
    /\ ~uploaded_pdf.none =>
          all_page_images = Some(get_all_page_images(uploaded_pdf.val))
    /\ ResultsOffered =>
          /\ ~uploaded_pdf.none
          /\ \A i \in 1..Len(session_processed_images.val) :
                session_processed_images.val[i].doc = uploaded_pdf.val.id

\* C22: when a page fails in "Process All Pages" of pdf_processor_app.py an
\* error is shown, the pages after the failing one are not taken up, and
\* st.session_state.processed_images and processing_done stay as they were.
C22_FailureStoresNothing ==
    /\ [][(ProcessAll /\ procScript = "processor"
             /\ uploaded_pdf.val.bad # NoBadPage) =>
            /\ processUI'.shown = "error"
            /\ processUI'.tried = RangeList(uploaded_pdf.val.bad + 1)
            /\ session_processed_images' = session_processed_images
            /\ processing_done' = processing_done]_vars
    /\ []((procScript = "processor" /\ processUI.shown = "error") =>
            /\ ~uploaded_pdf.none
            /\ \A k \in 1..Len(processUI.tried) : processUI.tried[k] <= uploaded_pdf.val.bad
            /\ session_processed_images.none = ~processing_done)

\* Page 0 of a two-page PDF fails after another PDF was processed: page 1
\* is not taken up and the stored results are those of the earlier PDF.
C22_Witness ==
    /\ procScript = "processor" /\ processUI.shown = "error"
    /\ uploaded_pdf.val.pages = 2 /\ uploaded_pdf.val.bad = 0
    /\ processUI.tried = <<0>>
    /\ processing_done /\ Len(session_processed_images.val) = 2
    /\ session_processed_images.val[1].doc # uploaded_pdf.val.id

(***************************************************************************)
(*             Claims on the splitter scripts (display, navigation)         *)
(***************************************************************************)

\* C23 (as claimed): in Pdf_splitter.py a slider at p, labelled and drawn
\* "p% from top", cuts the page p% of its height below the top edge: the
\* distances of the cuts from the top edge are those of the preview lines,
\* and the first page emitted is the band that ends at the top edge.
C23_CutsMeasuredFromTop ==
    (Generated /\ variant = "sH") =>
        \A p \in DocPages :
            LET height == doc[p + 1]
                drawn == {sv \in SeqToSet(Stored(p)) : 0 < sv /\ sv < 100}
                bands == PageOut(p)
            IN  drawn # {} =>
                  /\ {height - bands[i].right : i \in 1..(Len(bands) - 1)}
                        = {(sv * height) \div 100 : sv \in drawn}
                  /\ bands[1].right = height

\* The splits stored for page q, none stored counting as the empty entry.
SplitsOf(sd, q) == DictGet(sd, q, EmptyEntry(variant))

\* C24: a split added, a slider moved or the current page's splits cleared
\* leaves the splits of every other page as they were, and so does every
\* page navigation and "Generate" for all pages.
C24_OtherPagesUntouched ==
    /\ [][(MoveSlider \/ AddSplit \/ ClearPage) =>
            \A q \in DocPages \ {current_page} :
                SplitsOf(split_data', q) = SplitsOf(split_data, q)]_vars
    /\ [][(PrevPage \/ NextPage \/ Generate
             \/ \E nav_action \in NavActions : NavForm(nav_action)) =>
            \A q \in DocPages : SplitsOf(split_data', q) = SplitsOf(split_data, q)]_vars

\* Both pages carry splits of their own and the user is back on page 0.
C24_Witness ==
    /\ Len(doc) = 2 /\ current_page = 0
    /\ SplitsOf(split_data, 0) # EmptyEntry(variant)
    /\ SplitsOf(split_data, 1) # EmptyEntry(variant)
    /\ SplitsOf(split_data, 0) # SplitsOf(split_data, 1)

C29_ActiveSplitsShown ==
    (variant = "S4" /\ Len(doc) > 0) =>
        LET new_splits == DictGet(split_data, current_page, Zeros)
        IN  /\ Len(active_splits(new_splits, slider_defaults))
                  = Len(SelectSeq(new_splits, IsValidSplit))
            /\ Len(SplitPagePct(doc, processed_split_data(split_data), current_page))
                  = Len(SelectSeq(new_splits, IsValidSplit)) + 1

=============================================================================
